---- MODULE Spec2Model ----
(***************************************************************************)
(* Model of the dead-letter queue (jbi/queue.py), the retry worker         *)
(* (jbi/retry.py), the action runner (jbi/runner.py) and the create        *)
(* pipeline (jbi/actions/default.py) of the Jira Bugzilla Integration.     *)
(*                                                                         *)
(* Time is counted in ticks; two ticks make one rendered unit, so that an  *)
(* odd tick is rendered with a fractional part, as str(datetime) renders   *)
(* microseconds only when they are not zero.  Strings that the code sorts  *)
(* or compares are sequences of ASCII codes.                               *)
(***************************************************************************)
EXTENDS Integers, Sequences, FiniteSets, TLC

(* ---- bounds ---- *)
MaxBug == 1
MaxTime == 1
MaxQueue == 2
FirstTime == 19
MaxTick == 1
MaxRuns == 2
MaxIssues == 3
MaxTags == 2
MaxTasks == 2

RETRY_TIMEOUT_DAYS == 7
TicksPerDay == 2

BugIds == 0..MaxBug
Times == FirstTime..(FirstTime + MaxTime)
EventActions == {"create", "modify"}
Outcomes == {"ok", "ignore", "error"}
None == -1

VARIABLES dirs, files, last, see_also, issues, run, raced, worker, tasks, fsops, env

qvars == <<dirs, files, last>>
pvars == <<see_also, issues, run, raced>>
cvars == <<tasks, fsops, env>>
vars == <<dirs, files, last, see_also, issues, run, raced, worker, tasks, fsops, env>>

(* ---- strings ---- *)
Digit(d) == 48 + d

RECURSIVE str_int(_)
str_int(n) == IF n < 10 THEN <<Digit(n)>> ELSE str_int(n \div 10) \o <<Digit(n % 10)>>

str_time_unpadded(t) ==
    str_int(t \div TicksPerDay) \o (IF t % TicksPerDay = 0 THEN <<>> ELSE <<46, 53>>)

str_time(t) ==
    LET units == t \div TicksPerDay
    IN  <<Digit(units \div 10), Digit(units % 10)>>
        \o (IF t % TicksPerDay = 0 THEN <<>> ELSE <<46, 53>>)

str_action(a) ==
    CASE a = "create" -> <<99, 114, 101, 97, 116, 101>>
      [] a = "modify" -> <<109, 111, 100, 105, 102, 121>>

str_error == <<101, 114, 114, 111, 114>>
str_postponed == <<112, 111, 115, 116, 112, 111, 110, 101, 100>>
str_json == <<46, 106, 115, 111, 110>>
Dash == <<45>>

LexLT(s, t) ==
    \E i \in 1..(Len(s) + 1) :
        /\ i <= Len(t)
        /\ \A j \in 1..(i - 1) : s[j] = t[j]
        /\ (i = Len(s) + 1 \/ s[i] < t[i])

(* ---- QueueItem ---- *)
Requests == [bug : BugIds, time : Times, action : EventActions]
QueueItems == [bug : BugIds, time : Times, action : EventActions, error : BOOLEAN]

QueueItem(payload, error) ==
    [bug |-> payload.bug, time |-> payload.time, action |-> payload.action, error |-> error]

payload(item) == [bug |-> item.bug, time |-> item.time, action |-> item.action]

timestamp(item) == item.time

identifier_without_kind(item) ==
    str_time(item.time) \o Dash \o str_int(item.bug) \o Dash \o str_action(item.action)

identifier(item) ==
    str_time(item.time) \o Dash \o str_int(item.bug) \o Dash \o str_action(item.action)
        \o Dash \o (IF item.error THEN str_error ELSE str_postponed)

(* The renderings of the items of the model, computed once. *)
IdentifierOf == [item \in QueueItems |-> identifier(item)]

(* ---- FileBackend: a queue value is [dirs, files]; the file of an item   *)
(* lives in the directory of item.bug under the name identifier + ".json" *)
Queue == [dirs |-> dirs, files |-> files]

path_name(item) == IdentifierOf[item] \o str_json

(* sorted() compares paths; a \in PathBefore[b] iff the path of a sorts before that of b *)
PathBefore == [b \in QueueItems |-> {a \in QueueItems : LexLT(path_name(a), path_name(b))}]

folder(q, bug_id) == {f \in q.files : f.bug = bug_id}

RECURSIVE sorted(_)
sorted(S) ==
    IF S = {} THEN <<>>
    ELSE LET m == CHOOSE x \in S : \A y \in S \ {x} : x \in PathBefore[y]
         IN  <<m>> \o sorted(S \ {m})

put(q, item) ==
    [dirs |-> q.dirs \cup {item.bug},
     files |-> {f \in q.files : ~(f.bug = item.bug /\ IdentifierOf[f] = IdentifierOf[item])}
                  \cup {item}]

remove_keeping_dir(q, bug_id, ident) ==
    IF bug_id \notin q.dirs
    THEN [q |-> q, raised |-> "FileNotFoundError"]
    ELSE [q |-> [dirs |-> q.dirs,
                 files |-> {f \in q.files : ~(f.bug = bug_id /\ IdentifierOf[f] = ident)}],
          raised |-> "none"]

remove(q, bug_id, ident) ==
    IF bug_id \notin q.dirs
    THEN [q |-> q, raised |-> "FileNotFoundError"]
    ELSE LET fs == {f \in q.files : ~(f.bug = bug_id /\ IdentifierOf[f] = ident)}
         IN  [q |-> [dirs |-> IF \E f \in fs : f.bug = bug_id
                              THEN q.dirs ELSE q.dirs \ {bug_id},
                     files |-> fs],
              raised |-> "none"]

list(q, bug_id) ==
    LET s == sorted(folder(q, bug_id)) IN [i \in 1..Len(s) |-> IdentifierOf[s[i]]]

list_all(q) == [b \in q.dirs |-> list(q, b)]

get(q, bug_id) == IF bug_id \notin q.dirs THEN <<>> ELSE sorted(folder(q, bug_id))

get_all(q) == [b \in q.dirs |-> get(q, b)]

size(q, bug_id) ==
    IF bug_id \notin {0, None}
    THEN Cardinality(folder(q, bug_id))
    ELSE Cardinality(q.files)

is_blocked_never(q, request) == FALSE

is_blocked(q, request) == size(q, request.bug) > 0

retrieve(q, order) ==
    LET all == get_all(q)
        RECURSIVE flat(_)
        flat(i) == IF i > Len(order) THEN <<>> ELSE all[order[i]] \o flat(i + 1)
    IN  flat(1)

done(q, item) == remove(q, item.bug, IdentifierOf[item])

(* ---- retry worker: one pass of retry_failed ---- *)
Timeout == RETRY_TIMEOUT_DAYS * TicksPerDay

min_event_timestamp(clock) == clock - Timeout

is_expired(item, min) == timestamp(item) < min

never_blocked(st, bug_id) == FALSE

previous_failed(st, bug_id) == bug_id \in st.failed_bugs

skip_expired(st, item) == st

remove_expired(st, item) ==
    LET r == done(st.q, item)
    IN  IF r.raised # "none" THEN [st EXCEPT !.crashed = TRUE] ELSE [st EXCEPT !.q = r.q]

run_item_keep(st, item, outcome) ==
    LET st1 == [st EXCEPT !.ran = Append(@, [item |-> item, out |-> outcome])]
    IN  IF outcome = "ok" THEN st1
        ELSE [st1 EXCEPT !.failed_bugs = @ \cup {item.bug}]

run_item(st, item, outcome) ==
    LET st1 == [st EXCEPT !.ran = Append(@, [item |-> item, out |-> outcome])]
        r == done(st.q, item)
    IN  IF outcome = "ok" /\ r.raised = "none"
        THEN [st1 EXCEPT !.q = r.q]
        ELSE [st1 EXCEPT !.failed_bugs = @ \cup {item.bug}]

(* bad is the set of queue files whose content does not parse: reading   *)
(* one of them while a bug's items are iterated raises                    *)
(* QueueItemRetrievalError, which nothing in the pass catches.            *)
read_item(st, item, bad) ==
    IF item \in bad THEN [st EXCEPT !.crashed = TRUE] ELSE st

RECURSIVE retry_loop(_, _, _, _, _, _)
retry_loop(items, i, st, out, min, bad) ==
    IF i > Len(items) \/ st.crashed THEN st
    ELSE LET item == items[i]
         IN  IF read_item(st, item, bad).crashed
             THEN read_item(st, item, bad)
             ELSE IF is_expired(item, min)
             THEN retry_loop(items, i + 1, remove_expired(st, item), out, min, bad)
             ELSE IF previous_failed(st, item.bug)
             THEN retry_loop(items, i + 1, st, out, min, bad)
             ELSE retry_loop(items, i + 1, run_item(st, item, out[item]), out, min, bad)

(* ---- retry worker: main ---- *)
after_pass(constant_retry) == IF ~constant_retry THEN "exited" ELSE "sleep"

(* ---- links between the trackers ---- *)
jira_url(issue_key) == [site |-> "jira", key |-> issue_key]
bugzilla_url(bug_id) == [site |-> "bugzilla", id |-> bug_id]

extract_from_see_also(links) ==
    IF \E i \in 1..Len(links) : links[i].site = "jira"
    THEN links[CHOOSE i \in 1..Len(links) :
                   /\ links[i].site = "jira"
                   /\ \A j \in 1..(i - 1) : links[j].site # "jira"].key
    ELSE None

(* ---- runner: execute_action ---- *)
Targets == {"bug", "comment", "attachment"}
Whiteboards == {"", "devtest", "secure"}
SeeAlsos == {<<>>, <<[site |-> "other", key |-> 1]>>, <<jira_url(1)>>}
CallerOutcomes == {"handled", "unhandled", "raise"}

Actions == {[whiteboard_tag |-> "devtest", allow_private |-> FALSE],
            [whiteboard_tag |-> "secure", allow_private |-> TRUE]}
NoAction == [whiteboard_tag |-> "", allow_private |-> FALSE]

RunnerBugs == [id : BugIds, is_private : BOOLEAN, whiteboard : Whiteboards,
               see_also : SeeAlsos]
NoBug == [id |-> None, is_private |-> FALSE, whiteboard |-> "", see_also |-> <<>>]
RunnerRequests == [bug : RunnerBugs, target : Targets]

(* bug.lookup_action raises ActionNotFoundError (NoAction here) when no    *)
(* action is configured for the bug's whiteboard tag                       *)
lookup_action(bug) ==
    IF \E a \in Actions : a.whiteboard_tag = bug.whiteboard
    THEN CHOOSE a \in Actions : a.whiteboard_tag = bug.whiteboard
    ELSE NoAction

allowed_always(bug, action) == TRUE

allowed(bug, action) == ~(bug.is_private /\ ~action.allow_private)

classify_bug_as_create(issue, target) ==
    IF target = "bug" THEN "create"
    ELSE IF issue # None /\ target = "comment" THEN "comment"
    ELSE "ignore"

classify(issue, target) ==
    IF issue = None
    THEN IF target = "bug" THEN "create" ELSE "ignore"
    ELSE IF target = "bug" THEN "update"
    ELSE IF target = "comment" THEN "comment"
    ELSE "ignore"

NoFetch == [ok |-> FALSE, bug |-> NoBug]

NoExec == [called |-> FALSE, request |-> [bug |-> NoBug, target |-> ""], bug |-> NoBug,
           refetch |-> NoFetch, action |-> NoAction, operation |-> "handle",
           calls |-> <<>>, caller |-> "", raised |-> "none", incr |-> <<>>]

(* the three ways out of execute_action; e is the record of the call *)
Returned_uncounted(e) == [e EXCEPT !.raised = "none"]

Returned(e) ==
    [e EXCEPT !.raised = "none", !.incr = Append(@, "jbi.bugzilla.processed.count")]

Ignored_uncounted(e) == [e EXCEPT !.raised = "IgnoreInvalidRequestError"]

Ignored(e) ==
    [e EXCEPT !.raised = "IgnoreInvalidRequestError",
              !.incr = Append(@, "jbi.bugzilla.ignored.count")]

Propagated(e) == [e EXCEPT !.raised = "Exception"]

refetch_failed_propagates(e) == Propagated(e)

refetch_failed(e) == Ignored(e)

(* what follows action.caller: an exception of the pipeline propagates,   *)
(* a pipeline that returns is counted as processed, handled or not        *)
after_caller_ignoring_unhandled(e, caller) ==
    CASE caller = "raise" -> Propagated(e)
      [] caller = "unhandled" -> Ignored(e)
      [] OTHER -> Returned(e)

after_caller(e, caller) ==
    CASE caller = "raise" -> Propagated(e)
      [] OTHER -> Returned(e)

(* refetch is what get_client().get_bug does for a private bug (returns   *)
(* the bug, or raises: ok is FALSE); caller is what the action's pipeline  *)
(* does.  The result is the record of the call.                            *)
execute_action_result(request, refetch, caller) ==
    LET e0 == [NoExec EXCEPT !.called = TRUE, !.request = request, !.bug = request.bug,
                             !.refetch = refetch, !.caller = caller]
        e1 == IF request.bug.is_private
              THEN [e0 EXCEPT !.calls = Append(@, "get_bug")]
              ELSE e0
    IN  IF request.bug.is_private /\ ~refetch.ok
        THEN refetch_failed(e1)
        ELSE
        LET bug == IF request.bug.is_private THEN refetch.bug ELSE request.bug
            action == lookup_action(bug)
            e2 == [e1 EXCEPT !.bug = bug, !.calls = Append(@, "lookup_action")]
        IN  IF action = NoAction
            THEN Ignored(e2)
            ELSE
            LET e3 == [e2 EXCEPT !.action = action]
            IN  IF ~allowed(bug, action)
                THEN Ignored(e3)
                ELSE
                LET operation == classify(extract_from_see_also(bug.see_also),
                                          request.target)
                    e4 == [e3 EXCEPT !.operation = operation]
                IN  IF operation = "ignore"
                    THEN Ignored(e4)
                    ELSE
                    LET e5 == [e4 EXCEPT !.calls = Append(@, "caller")]
                    IN  after_caller(e5, caller)

(* ---- steps of the pipeline, each computed on the inputs it reads ----  *)
(* create: the response of CreateIssue is a dict or a list of dicts; an   *)
(* entry of a dict is absent, empty or non-empty                          *)
ErrorEntries == {"absent", "empty", "nonempty"}
ResponseDicts == [errors : ErrorEntries, errorMessages : ErrorEntries, key : {None, 1, 2}]
CreateResponses ==
    {[shape |-> "dict", elems |-> <<e>>] : e \in ResponseDicts}
        \cup {[shape |-> "list", elems |-> <<e>>] : e \in ResponseDicts}
        \cup {[shape |-> "list", elems |-> <<e, f>>] : e, f \in ResponseDicts}
NoResponse == [shape |-> "none", elems |-> <<>>]

last_element(response) == response.elems[Len(response.elems)]

first_element(response) == response.elems[1]

contains_error(element) ==
    element.errors = "nonempty" \/ element.errorMessages = "nonempty"

checked_response(response) ==
    LET element == first_element(response)
    IN  IF contains_error(element)
        THEN [raised |-> "ActionError", key |-> None]
        ELSE [raised |-> "none", key |-> element.key]

(* status: status_map is a dict from Bugzilla statuses and resolutions to *)
(* Jira statuses                                                          *)
BugStatuses == {"", "NEW", "RESOLVED"}
BugResolutions == {"", "FIXED"}
StatusBugs == [status : BugStatuses, resolution : BugResolutions]
JiraStatuses == {"In Progress", "Done"}
StatusMaps ==
    UNION {[K -> JiraStatuses] : K \in SUBSET {"NEW", "RESOLVED", "FIXED"}}
Operations == {"create", "update", "comment"}
ChangedFields == SUBSET {"status", "resolution", "assigned_to"}
Call(name, arg) == [call |-> name, arg |-> arg]
StepResult(calls, responses, raised) ==
    [calls |-> calls, responses |-> responses, raised |-> raised]

bz_status_without_resolution(bug) == bug.status

bz_status(bug) == IF bug.resolution # "" THEN bug.resolution ELSE bug.status

maybe_update_issue_status_result(operation, bug, changed_fields, status_map) ==
    LET key == bz_status(bug)
    IN  IF key \notin DOMAIN status_map
        THEN StepResult(<<>>, 0, "none")
        ELSE IF operation = "create"
        THEN StepResult(<<Call("SetStatus", status_map[key])>>, 1, "none")
        ELSE IF /\ operation = "update"
                /\ ("status" \in changed_fields \/ "resolution" \in changed_fields)
        THEN StepResult(<<Call("SetStatus", status_map[key])>>, 1, "none")
        ELSE StepResult(<<>>, 0, "none")

(* assignee: FindUser returns one user, none, several, or the call fails; *)
(* assign_jira_user raises ValueError unless there is exactly one         *)
Lookups == {"one", "none", "several", "error"}

assign_jira_user(lookup, update_ok) ==
    CASE lookup = "error" -> StepResult(<<Call("FindUser", "")>>, 0, "Exception")
      [] lookup \in {"none", "several"} ->
             StepResult(<<Call("FindUser", "")>>, 0, "ValueError")
      [] OTHER ->
             IF update_ok
             THEN StepResult(<<Call("FindUser", ""), Call("UpdateIssueFields", "assignee")>>,
                             1, "none")
             ELSE StepResult(<<Call("FindUser", ""), Call("UpdateIssueFields", "assignee")>>,
                             0, "Exception")

clear_assignee(before, update_ok) ==
    IF update_ok
    THEN StepResult(before \o <<Call("UpdateIssueFields", "none")>>, 1, "none")
    ELSE StepResult(before \o <<Call("UpdateIssueFields", "none")>>, 0, "Exception")

assign_on_create_clearing(is_assigned, lookup, update_ok) ==
    IF ~is_assigned THEN StepResult(<<>>, 0, "none")
    ELSE LET resp == assign_jira_user(lookup, update_ok)
         IN  IF resp.raised = "ValueError"
             THEN clear_assignee(resp.calls, update_ok)
             ELSE resp

assign_on_create(is_assigned, lookup, update_ok) ==
    IF ~is_assigned THEN StepResult(<<>>, 0, "none")
    ELSE LET resp == assign_jira_user(lookup, update_ok)
         IN  IF resp.raised = "ValueError"
             THEN StepResult(resp.calls, 0, "none")
             ELSE resp

assign_on_update_raising(changed_fields, is_assigned, lookup, update_ok) ==
    IF "assigned_to" \notin changed_fields THEN StepResult(<<>>, 0, "none")
    ELSE IF ~is_assigned THEN clear_assignee(<<>>, update_ok)
    ELSE assign_jira_user(lookup, update_ok)

assign_on_update(changed_fields, is_assigned, lookup, update_ok) ==
    IF "assigned_to" \notin changed_fields THEN StepResult(<<>>, 0, "none")
    ELSE IF ~is_assigned THEN clear_assignee(<<>>, update_ok)
    ELSE LET resp == assign_jira_user(lookup, update_ok)
         IN  IF resp.raised = "ValueError"
             THEN clear_assignee(resp.calls, update_ok)
             ELSE resp

maybe_assign_jira_user_result(operation, changed_fields, is_assigned, lookup, update_ok) ==
    CASE operation = "create" -> assign_on_create(is_assigned, lookup, update_ok)
      [] operation = "update" ->
             assign_on_update(changed_fields, is_assigned, lookup, update_ok)
      [] OTHER -> StepResult(<<>>, 0, "none")

(* init: the steps parameter maps group names to step names (one step a  *)
(* group here); it is taken with the other keyword arguments and not      *)
(* looked at                                                              *)
GroupNames == {"new", "existing", "comment", "bad-operation"}
StepNames == {"create_issue", "maybe_assign_jira_user", "unknown_step"}
StepsParameters == UNION {[G -> StepNames] : G \in SUBSET GroupNames}
(* groups is what the object holds as its step groups: __init__ keeps     *)
(* jira_project_key and sync_whiteboard_labels and nothing else           *)
NoExecutor == [made |-> FALSE, raised |-> "none", steps |-> <<>>, groups |-> <<>>]

DefaultExecutor(steps) ==
    [made |-> TRUE, raised |-> "none", steps |-> steps, groups |-> <<>>]

(* lookup: a whiteboard is a text of segments, each a word in brackets or *)
(* a bare word; the tags of a bug are its bracketed segments, lower-cased, *)
(* in the order of the whiteboard; the configuration is an ordered list of *)
(* actions.  The bug's tags are tried in order and the first tag that an   *)
(* action is configured for decides.                                       *)
Words == {"devtest", "DevTest", "secure", "example"}
Segments == [word : Words, bracketed : BOOLEAN]
WhiteboardTexts == UNION {[1..n -> Segments] : n \in 0..MaxTags}
Configurations ==
    {c \in [1..Cardinality(Actions) -> Actions] :
         \A i, j \in 1..Cardinality(Actions) : i # j => c[i] # c[j]}

lower(word) == IF word = "DevTest" THEN "devtest" ELSE word

IsTag(segment) == segment.bracketed

tags_with_bare_words(whiteboard) ==
    [i \in 1..Len(whiteboard) |-> lower(whiteboard[i].word)]

tags(whiteboard) ==
    LET bracketed == SelectSeq(whiteboard, IsTag)
    IN  [i \in 1..Len(bracketed) |-> lower(bracketed[i].word)]

Matches(tag, configured) ==
    {i \in 1..Len(configured) : lower(configured[i].whiteboard_tag) = tag}

lookup_action_of(whiteboard, configured) ==
    LET ts == tags(whiteboard)
        hits == {k \in 1..Len(ts) : Matches(ts[k], configured) # {}}
    IN  IF hits = {} THEN NoAction
        ELSE LET k == CHOOSE h \in hits : \A g \in hits : h <= g
                 i == CHOOSE m \in Matches(ts[k], configured) :
                          \A n \in Matches(ts[k], configured) : m <= n
             IN  configured[i]

NoStep == [name |-> "", operation |-> "", bug |-> [status |-> "", resolution |-> ""],
           changed_fields |-> {}, status_map |-> <<>>, is_assigned |-> FALSE,
           lookup |-> "", update_ok |-> TRUE, response |-> NoResponse, issue |-> None,
           result |-> StepResult(<<>>, 0, "none"), executor |-> NoExecutor,
           whiteboard |-> <<>>, configured |-> <<>>, action |-> NoAction,
           comment_list |-> <<>>, description |-> "", details |-> {}]

(* ---- state: the queue on disk, and the record of the operation that    *)
(* has just run (cleared when the operation returns to its caller)        *)
NoItem == [bug |-> None, time |-> 0, action |-> "", error |-> FALSE]
NoLast == [op |-> "idle", item |-> NoItem, res |-> "none", pre |-> {}, preDirs |-> {},
           items |-> <<>>, ran |-> <<>>, failed_bugs |-> {}, now |-> 0, crashed |-> FALSE,
           exec |-> NoExec, bad |-> {}, step |-> NoStep]

Perms(S) ==
    {s \in [1..Cardinality(S) -> S] : \A i, j \in 1..Cardinality(S) : i # j => s[i] # s[j]}

FirstNow == FirstTime + Timeout
Clocks == FirstNow..(FirstNow + MaxTick)

Idle == last.op = "idle"

Fits(item) == Cardinality(put(Queue, item).files) <= MaxQueue

Runs == 1..MaxRuns
IssueKeys == 1..MaxIssues
NoLink == [site |-> "none", id |-> None]
NoIssue == [state |-> "none", bug |-> None, remote_link |-> NoLink]
(* the worker process: passes counts the passes it has made, up to "two  *)
(* or more"                                                               *)
Many == 2
NoWorker == [pc |-> "off", constant_retry |-> FALSE, passes |-> 0]

(* the ingestion tasks of the webhook endpoint, numbered in the order the *)
(* webhooks arrive                                                        *)
Tasks == 1..MaxTasks
NoRequest == [bug |-> None, time |-> 0, action |-> ""]
NoTask == [pc |-> "idle", request |-> NoRequest]

(* file-system calls in progress: put and remove, one call of the files   *)
(* backend each; temp tells whether ping's temporary directory is in the  *)
(* queue's location; listing is the last enumeration of the location,     *)
(* with the bugs that had a queued item when it ran                       *)
NoCallInProgress == [pc |-> "idle", item |-> NoItem, raised |-> "none"]
NoListing == [pc |-> "idle", ids |-> {}, raised |-> "none", temp |-> FALSE,
              queued |-> {}]
NoOps == [put |-> NoCallInProgress, rem |-> NoCallInProgress, temp |-> FALSE,
          listing |-> NoListing]

(* what the worker finds around it: the time of the clock, and the files *)
(* of the queue that do not parse                                         *)
NoEnv == [now |-> FirstNow, corrupt |-> {}]

NoRun == [pc |-> "idle", bug |-> None, issue_key |-> None, latest |-> None,
          calls |-> <<>>, rivals |-> {}, handled |-> FALSE, incr |-> <<>>]

Init ==
    /\ dirs = {}
    /\ files = {}
    /\ last = NoLast
    /\ see_also = [b \in BugIds |-> <<>>]
    /\ issues = [k \in IssueKeys |-> NoIssue]
    /\ run = [p \in Runs |-> NoRun]
    /\ raced = FALSE
    /\ worker = NoWorker
    /\ tasks = [t \in Tasks |-> NoTask]
    /\ fsops = NoOps
    /\ env = NoEnv

Stored(op, item, res, q) ==
    /\ dirs' = q.dirs
    /\ files' = q.files
    /\ last' = [NoLast EXCEPT !.op = op, !.item = item, !.res = res,
                              !.pre = files, !.preDirs = dirs]
    /\ UNCHANGED <<pvars, worker, cvars>>

postpone(request) ==
    LET item == QueueItem(request, FALSE)
    IN  /\ Idle
        /\ Fits(item)
        /\ Stored("postpone", item, "none", put(Queue, item))

track_failed(request) ==
    LET item == QueueItem(request, TRUE)
    IN  /\ Idle
        /\ Fits(item)
        /\ Stored("track_failed", item, "none", put(Queue, item))

Remove(item) ==
    LET r == remove(Queue, item.bug, IdentifierOf[item])
    IN  /\ Idle
        /\ Stored("remove", item, r.raised, r.q)

Ingest(request, outcome) ==
    /\ Idle
    /\ IF is_blocked(Queue, request)
       THEN LET item == QueueItem(request, FALSE)
            IN  /\ Fits(item)
                /\ Stored("ingest", item, "postponed", put(Queue, item))
       ELSE IF outcome = "error"
       THEN LET item == QueueItem(request, TRUE)
            IN  /\ Fits(item)
                /\ Stored("ingest", item, "failed", put(Queue, item))
       ELSE Stored("ingest", QueueItem(request, FALSE), outcome, Queue)

retry_pass(clock, order, out, bad) ==
    LET min == min_event_timestamp(clock)
        items == retrieve(Queue, order)
        st0 == [q |-> Queue, failed_bugs |-> {}, ran |-> <<>>, crashed |-> FALSE]
    IN  retry_loop(items, 1, st0, out, min, bad)

Passed(clock, order, bad, st) ==
    /\ dirs' = st.q.dirs
    /\ files' = st.q.files
    /\ last' = [NoLast EXCEPT !.op = "retry_failed", !.pre = files, !.preDirs = dirs,
                              !.items = retrieve(Queue, order), !.ran = st.ran,
                              !.failed_bugs = st.failed_bugs, !.now = clock,
                              !.crashed = st.crashed, !.bad = bad]
    /\ UNCHANGED pvars

retry_failed(clock, order, out, bad) ==
    /\ Idle
    /\ Passed(clock, order, bad, retry_pass(clock, order, out, bad))
    /\ UNCHANGED <<worker, cvars>>

(* main: the worker process.  It makes a pass, then exits unless          *)
(* CONSTANT_RETRY is set, in which case it sleeps and makes another; an   *)
(* exception out of a pass ends the process.                              *)
main(constant_retry) ==
    /\ worker.pc = "off"
    /\ worker' = [NoWorker EXCEPT !.pc = "loop", !.constant_retry = constant_retry]
    /\ UNCHANGED <<qvars, pvars, cvars>>

main_retry_failed(clock, order, out, bad) ==
    LET st == retry_pass(clock, order, out, bad)
    IN  /\ worker.pc = "loop"
        /\ Idle
        /\ Passed(clock, order, bad, st)
        /\ worker' = [worker EXCEPT
                          !.pc = IF st.crashed THEN "raised" ELSE "passed",
                          !.passes = IF @ < Many THEN @ + 1 ELSE Many]
        /\ UNCHANGED cvars

main_after_pass ==
    /\ worker.pc = "passed"
    /\ worker' = [worker EXCEPT !.pc = after_pass(worker.constant_retry)]
    /\ UNCHANGED <<qvars, pvars, cvars>>

main_sleep ==
    /\ worker.pc = "sleep"
    /\ worker' = [worker EXCEPT !.pc = "loop"]
    /\ UNCHANGED <<qvars, pvars, cvars>>

(* the inputs a call reads: get_bug answers only for a private bug, the   *)
(* pipeline only when the runner reaches it                               *)
RefetchesOf(request) ==
    IF request.bug.is_private
    THEN {NoFetch} \cup {[ok |-> TRUE, bug |-> b] :
                            b \in [id : {request.bug.id}, is_private : BOOLEAN,
                                   whiteboard : Whiteboards, see_also : SeeAlsos]}
    ELSE {NoFetch}

Invoked(e, call) == \E i \in 1..Len(e.calls) : e.calls[i] = call

CallersOf(request, refetch) ==
    IF Invoked(execute_action_result(request, refetch, "handled"), "caller")
    THEN CallerOutcomes
    ELSE {"handled"}

execute_action(request, refetch, caller) ==
    /\ Idle
    /\ last' = [NoLast EXCEPT !.op = "execute_action", !.pre = files, !.preDirs = dirs,
                              !.exec = execute_action_result(request, refetch, caller)]
    /\ UNCHANGED <<dirs, files>>
    /\ UNCHANGED <<pvars, worker, cvars>>

(* the webhook endpoint: a request for a blocked bug is postponed without *)
(* being run; otherwise it is run, and queued as failed when the runner   *)
(* raises anything but IgnoreInvalidRequestError                          *)
webhook_payload(request) == [bug |-> request.bug.id, time |-> FirstTime, action |-> "create"]

Answered(item, res, q, e) ==
    /\ dirs' = q.dirs
    /\ files' = q.files
    /\ last' = [NoLast EXCEPT !.op = "bugzilla_webhook", !.item = item, !.res = res,
                              !.pre = files, !.preDirs = dirs, !.exec = e]
    /\ UNCHANGED <<pvars, worker, cvars>>

bugzilla_webhook(request, refetch, caller) ==
    LET payload_ == webhook_payload(request)
        e == execute_action_result(request, refetch, caller)
    IN  /\ Idle
        /\ IF is_blocked(Queue, payload_)
           THEN LET item == QueueItem(payload_, FALSE)
                IN  /\ refetch = NoFetch /\ caller = "handled"
                    /\ Fits(item)
                    /\ Answered(item, "postponed", put(Queue, item), NoExec)
           ELSE IF e.raised = "Exception"
           THEN LET item == QueueItem(payload_, TRUE)
                IN  /\ Fits(item)
                    /\ Answered(item, "failed", put(Queue, item), e)
           ELSE Answered(QueueItem(payload_, FALSE),
                         IF e.raised = "none" THEN "ok" ELSE "ignore", Queue, e)

Return ==
    /\ ~Idle
    /\ last' = NoLast
    /\ UNCHANGED <<dirs, files>>
    /\ UNCHANGED <<pvars, worker, cvars>>

Next ==
    \/ \E r \in Requests : postpone(r)
    \/ \E r \in Requests : track_failed(r)
    \/ \E item \in QueueItems : Remove(item)
    \/ \E r \in Requests, o \in Outcomes : Ingest(r, o)
    \/ Return

Spec == Init /\ [][Next]_vars

(* The worker is checked on queues of events of one event.action: the    *)
(* action only names the file and plays no part in a pass.               *)
CreateRequests == {r \in Requests : r.action = "create"}

NextRetry ==
    \/ \E r \in CreateRequests : postpone(r)
    \/ \E r \in CreateRequests : track_failed(r)
    \/ \E r \in CreateRequests, o \in Outcomes : Ingest(r, o)
    \/ \E clock \in Clocks, order \in Perms(dirs), out \in [files -> Outcomes] :
           retry_failed(clock, order, out, {})
    \/ Return

SpecRetry == Init /\ [][NextRetry]_vars

(* A pass over a queue one of whose files does not parse. *)
NextCorrupt ==
    \/ \E r \in CreateRequests : postpone(r)
    \/ \E r \in CreateRequests : track_failed(r)
    \/ \E clock \in Clocks, order \in Perms(dirs), out \in [files -> Outcomes] :
           \E item \in files : retry_failed(clock, order, out, {item})
    \/ Return

SpecCorrupt == Init /\ [][NextCorrupt]_vars

(* A pass over a backlog: any queue of up to MaxQueue + 1 items that the  *)
(* webhook has filled before the worker starts.                           *)
Backlogs ==
    {S \in SUBSET {QueueItem(r, e) : r \in CreateRequests, e \in BOOLEAN} :
         Cardinality(S) <= MaxQueue + 1}

InitBacklog ==
    /\ files \in Backlogs
    /\ dirs = {f.bug : f \in files}
    /\ last = NoLast
    /\ see_also = [b \in BugIds |-> <<>>]
    /\ issues = [k \in IssueKeys |-> NoIssue]
    /\ run = [p \in Runs |-> NoRun]
    /\ raced = FALSE
    /\ worker = NoWorker
    /\ tasks = [t \in Tasks |-> NoTask]
    /\ fsops = NoOps
    /\ env = NoEnv

NextBacklog ==
    \/ \E clock \in Clocks, order \in Perms(dirs), out \in [files -> Outcomes] :
           retry_failed(clock, order, out, {})
    \/ Return

SpecBacklog == InitBacklog /\ [][NextBacklog]_vars

(* The worker process, on a queue of events of one time that the webhook  *)
(* fills while the worker runs and of which at most one file does not     *)
(* parse.  The worker is a process of its own: once a pass has returned,  *)
(* the statements of main that follow it are run.                         *)
WorkerRequests == {r \in CreateRequests : r.time = FirstTime}

MainPass ==
    \E clock \in Clocks, order \in Perms(dirs), out \in [files -> Outcomes] :
        \E bad \in {{}} \cup {{f} : f \in files} :
            main_retry_failed(clock, order, out, bad)

NextWorker ==
    \/ \E c \in BOOLEAN : main(c)
    \/ MainPass
    \/ main_after_pass
    \/ main_sleep
    \/ \E r \in WorkerRequests : postpone(r)
    \/ \E r \in WorkerRequests : track_failed(r)
    \/ Return

SpecWorker ==
    /\ Init
    /\ [][NextWorker]_vars
    /\ WF_vars(main_after_pass)
    /\ WF_vars(main_sleep)

NextRunner ==
    \/ \E request \in RunnerRequests :
           \E refetch \in RefetchesOf(request) :
               \E caller \in CallersOf(request, refetch) :
                   execute_action(request, refetch, caller)
    \/ \E request \in RunnerRequests :
           \E refetch \in RefetchesOf(request) :
               \E caller \in CallersOf(request, refetch) :
                   bugzilla_webhook(request, refetch, caller)
    \/ Return

SpecRunner == Init /\ [][NextRunner]_vars

TypeOK ==
    /\ dirs \subseteq BugIds
    /\ files \subseteq QueueItems
    /\ Cardinality(files) <= MaxQueue

(* ---- create pipeline: DefaultExecutor.create_and_link_issue, one step  *)
(* per tracker call; a call that raises ends the run where it stands.     *)
(* calls is the sequence of tracker calls the run has invoked, incr the   *)
(* sequence of counters it has incremented (the executor increments none).*)
Active(p) == run[p].pc \notin {"idle", "aborted", "done"}

(* the order of the statements of create_and_link_issue *)
step_after_without_remote_link(pc) ==
    CASE pc = "create" -> "get_bug"
      [] pc = "get_bug" -> "check_duplicate"
      [] pc = "check_duplicate" -> "add_link_to_jira"
      [] pc = "add_link_to_jira" -> "done"
      [] OTHER -> "done"

step_after_swapped(pc) ==
    CASE pc = "create" -> "get_bug"
      [] pc = "get_bug" -> "check_duplicate"
      [] pc = "check_duplicate" -> "add_link_to_bugzilla"
      [] pc = "add_link_to_bugzilla" -> "add_link_to_jira"
      [] OTHER -> "done"

step_after(pc) ==
    CASE pc = "create" -> "get_bug"
      [] pc = "get_bug" -> "check_duplicate"
      [] pc = "check_duplicate" -> "add_link_to_jira"
      [] pc = "add_link_to_jira" -> "add_link_to_bugzilla"
      [] OTHER -> "done"

Called(p, call) == [run[p] EXCEPT !.calls = Append(@, call)]

Advance(r) ==
    LET pc == step_after(r.pc)
    IN  [r EXCEPT !.pc = pc, !.handled = (pc = "done")]

Raise(p, call) ==
    /\ run' = [run EXCEPT ![p] = [Called(p, call) EXCEPT !.pc = "aborted"]]
    /\ UNCHANGED <<see_also, issues, raced>>

Unlinked(b) ==
    {o \in Runs : run[o].bug = b
                  /\ run[o].pc \in {"get_bug", "check_duplicate", "add_link_to_jira"}}

(* Runs are the invocations of the pipeline, numbered in the order they   *)
(* start; each invocation runs once.                                      *)
bug_create_or_update(p, b) ==
    /\ run[p].pc = "idle"
    /\ \A o \in Runs : o < p => run[o].pc # "idle"
    /\ run' = [run EXCEPT ![p] = [NoRun EXCEPT !.pc = "create", !.bug = b]]
    /\ raced' = (raced \/ \E o \in Runs \ {p} : Active(o))
    /\ UNCHANGED <<see_also, issues, qvars, worker, cvars>>

create_jira_issue(p, ok) ==
    /\ run[p].pc = "create"
    /\ IF ok
       THEN /\ \E k \in IssueKeys : issues[k].state = "none"
            /\ LET key == CHOOSE k \in IssueKeys :
                              issues[k].state = "none"
                              /\ \A j \in IssueKeys : j < k => issues[j].state # "none"
               IN  /\ issues' = [issues EXCEPT ![key] = [state |-> "open", bug |-> run[p].bug,
                                                         remote_link |-> NoLink]]
                   /\ run' = [run EXCEPT ![p] =
                                  Advance([Called(p, "CreateIssue") EXCEPT
                                               !.issue_key = key,
                                               !.rivals = Unlinked(run[p].bug) \ {p}])]
            /\ UNCHANGED <<see_also, raced>>
       ELSE Raise(p, "CreateIssue")
    /\ UNCHANGED <<qvars, worker, cvars>>

get_bug(p, ok) ==
    /\ run[p].pc = "get_bug"
    /\ IF ok
       THEN /\ run' = [run EXCEPT ![p] =
                           Advance([Called(p, "GetBug") EXCEPT
                                        !.latest = extract_from_see_also(see_also[run[p].bug])])]
            /\ UNCHANGED <<see_also, issues, raced>>
       ELSE Raise(p, "GetBug")
    /\ UNCHANGED <<qvars, worker, cvars>>

(* response is what the client's delete_issue returns: a value that is    *)
(* true in a condition, one that is false (None, an empty body), or the   *)
(* call raises; create_and_link_issue returns early only on the first.    *)
DeleteResponses == {"response", "empty", "raise"}

duplicate_creation_event_always(jira_key_in_bugzilla, issue_key) == TRUE

duplicate_creation_event(jira_key_in_bugzilla, issue_key) ==
    jira_key_in_bugzilla # None /\ issue_key # jira_key_in_bugzilla

delete_jira_issue_if_duplicate(p, response) ==
    /\ run[p].pc = "check_duplicate"
    /\ IF duplicate_creation_event(run[p].latest, run[p].issue_key)
       THEN IF response = "raise"
            THEN Raise(p, "DeleteIssue")
            ELSE /\ issues' = [issues EXCEPT ![run[p].issue_key].state = "deleted"]
                 /\ run' = [run EXCEPT ![p] =
                                IF response = "response"
                                THEN [Called(p, "DeleteIssue") EXCEPT
                                          !.pc = "done", !.handled = TRUE]
                                ELSE Advance(Called(p, "DeleteIssue"))]
                 /\ UNCHANGED <<see_also, raced>>
       ELSE /\ response = "response"
            /\ run' = [run EXCEPT ![p] = Advance(run[p])]
            /\ UNCHANGED <<see_also, issues, raced>>
    /\ UNCHANGED <<qvars, worker, cvars>>

add_link_to_jira(p, ok) ==
    /\ run[p].pc = "add_link_to_jira"
    /\ IF ok
       THEN /\ see_also' = [see_also EXCEPT ![run[p].bug] =
                                Append(@, jira_url(run[p].issue_key))]
            /\ run' = [run EXCEPT ![p] = Advance(Called(p, "UpdateBug"))]
            /\ UNCHANGED <<issues, raced>>
       ELSE Raise(p, "UpdateBug")
    /\ UNCHANGED <<qvars, worker, cvars>>

add_link_to_bugzilla(p, ok) ==
    /\ run[p].pc = "add_link_to_bugzilla"
    /\ IF ok /\ issues[run[p].issue_key].state = "open"
       THEN /\ issues' = [issues EXCEPT ![run[p].issue_key].remote_link = bugzilla_url(run[p].bug)]
            /\ run' = [run EXCEPT ![p] = Advance(Called(p, "AddRemoteLink"))]
            /\ UNCHANGED <<see_also, raced>>
       ELSE Raise(p, "AddRemoteLink")
    /\ UNCHANGED <<qvars, worker, cvars>>

NextCreate ==
    \/ \E p \in Runs, b \in BugIds : bug_create_or_update(p, b)
    \/ \E p \in Runs, ok \in BOOLEAN : create_jira_issue(p, ok)
    \/ \E p \in Runs, ok \in BOOLEAN : get_bug(p, ok)
    \/ \E p \in Runs, response \in DeleteResponses :
           delete_jira_issue_if_duplicate(p, response)
    \/ \E p \in Runs, ok \in BOOLEAN : add_link_to_jira(p, ok)
    \/ \E p \in Runs, ok \in BOOLEAN : add_link_to_bugzilla(p, ok)

SpecCreate == Init /\ [][NextCreate]_vars

(* ---- the steps as operations: each call is recorded with its inputs -- *)
Stepped(step) ==
    /\ Idle
    /\ last' = [NoLast EXCEPT !.op = step.name, !.step = step]
    /\ UNCHANGED <<dirs, files, pvars, worker, cvars>>

(* the calls of create_and_link_issue after CreateIssue, when no          *)
(* duplicate is found                                                     *)
CallOf(pc) ==
    CASE pc = "create" -> <<Call("CreateIssue", "")>>
      [] pc = "get_bug" -> <<Call("GetBug", "")>>
      [] pc = "add_link_to_jira" -> <<Call("UpdateBug", "see_also")>>
      [] pc = "add_link_to_bugzilla" -> <<Call("AddRemoteLink", "")>>
      [] OTHER -> <<>>

RECURSIVE calls_from(_)
calls_from(pc) == IF pc = "done" THEN <<>> ELSE CallOf(pc) \o calls_from(step_after(pc))

(* get_comments answers with the bug's comments, the first of which is   *)
(* the description of the issue                                           *)
CommentLists == {<<>>, <<"first">>, <<"first", "second">>}

(* the details create_and_link_issue returns when it has linked the issue: *)
(* a dict, given as its entries, value being the calls whose responses the *)
(* entry holds                                                            *)
details_of_create ==
    {[key |-> "bugzilla_response", value |-> <<"UpdateBug">>],
     [key |-> "jira_response", value |-> <<"AddRemoteLink">>]}

create_issue(comment_list, response) ==
    IF comment_list = <<>>
    THEN Stepped([NoStep EXCEPT
                      !.name = "create_issue", !.operation = "create",
                      !.comment_list = comment_list,
                      !.result = StepResult(<<>>, 0, "IndexError")])
    ELSE
    LET r == checked_response(response)
    IN  Stepped([NoStep EXCEPT
                     !.name = "create_issue", !.operation = "create",
                     !.comment_list = comment_list, !.description = comment_list[1],
                     !.response = response, !.issue = r.key,
                     !.details = IF r.raised # "none" THEN {} ELSE details_of_create,
                     !.result = IF r.raised # "none"
                                THEN StepResult(CallOf("create"), 0, r.raised)
                                ELSE StepResult(calls_from("create"), 1, "none")])

maybe_update_issue_status(operation, bug, changed_fields, status_map) ==
    Stepped([NoStep EXCEPT
                 !.name = "maybe_update_issue_status", !.operation = operation,
                 !.bug = bug, !.changed_fields = changed_fields,
                 !.status_map = status_map,
                 !.result = maybe_update_issue_status_result(operation, bug,
                                                             changed_fields, status_map)])

maybe_assign_jira_user(operation, changed_fields, is_assigned, lookup, update_ok) ==
    Stepped([NoStep EXCEPT
                 !.name = "maybe_assign_jira_user", !.operation = operation,
                 !.changed_fields = changed_fields, !.is_assigned = is_assigned,
                 !.lookup = lookup, !.update_ok = update_ok,
                 !.result = maybe_assign_jira_user_result(operation, changed_fields,
                                                          is_assigned, lookup, update_ok)])

init(steps) ==
    Stepped([NoStep EXCEPT !.name = "init", !.executor = DefaultExecutor(steps)])

lookup_action_call(whiteboard, configured) ==
    Stepped([NoStep EXCEPT
                 !.name = "lookup_action", !.whiteboard = whiteboard,
                 !.configured = configured,
                 !.action = lookup_action_of(whiteboard, configured)])

NextSteps ==
    \/ \E comment_list \in CommentLists, response \in CreateResponses :
           create_issue(comment_list, response)
    \/ \E operation \in Operations, bug \in StatusBugs,
           changed_fields \in ChangedFields, status_map \in StatusMaps :
           maybe_update_issue_status(operation, bug, changed_fields, status_map)
    \/ \E operation \in Operations, changed_fields \in ChangedFields,
           is_assigned \in BOOLEAN, lookup \in Lookups, update_ok \in BOOLEAN :
           maybe_assign_jira_user(operation, changed_fields, is_assigned, lookup, update_ok)
    \/ \E steps \in StepsParameters : init(steps)
    \/ \E whiteboard \in WhiteboardTexts, configured \in Configurations :
           lookup_action_call(whiteboard, configured)
    \/ Return

SpecSteps == Init /\ [][NextSteps]_vars

(* ======================= claims: queue and retry worker ================ *)
RanIdx == 1..Len(last.ran)
ItemIdx == 1..Len(last.items)
Position(item) == CHOOSE k \in ItemIdx : last.items[k] = item
WasRun(item) == \E j \in RanIdx : last.ran[j].item = item
Cutoff == last.now - RETRY_TIMEOUT_DAYS * TicksPerDay
LaterOfSameBug(item) ==
    {k \in ItemIdx : last.items[k].bug = item.bug /\ k > Position(item)}
SameBug(S, bug_id) == {f \in S : f.bug = bug_id}

(* C1: in one pass of retry_failed, once running an item of bug B raises a
   non-ignore error, no item of B ordered after it is passed to the runner,
   and the failed item and all later items of B are still in the queue,
   unchanged, when the pass ends. *)
C1_HeadOfLineBlocking ==
    last.op = "retry_failed" =>
        \A i \in RanIdx :
            last.ran[i].out = "error" =>
                /\ last.ran[i].item \in files
                /\ \A k \in LaterOfSameBug(last.ran[i].item) :
                       /\ ~WasRun(last.items[k])
                       /\ last.items[k] \in files

C1_Witness ==
    /\ last.op = "retry_failed"
    /\ \E i \in RanIdx :
           /\ last.ran[i].out = "error"
           /\ LaterOfSameBug(last.ran[i].item) # {}

(* C2: every item whose event.time is earlier than now minus the retry
   timeout at the start of a pass is removed by that pass without being
   passed to the runner, whatever else is queued or has failed. *)
C2_ExpiredRemoved ==
    last.op = "retry_failed" =>
        \A k \in ItemIdx :
            last.items[k].time < Cutoff =>
                /\ last.items[k] \notin files
                /\ ~WasRun(last.items[k])

C2_Witness ==
    /\ last.op = "retry_failed"
    /\ \E k \in ItemIdx, i \in RanIdx :
           /\ last.items[k].time < Cutoff
           /\ last.ran[i].out = "error"
           /\ Position(last.ran[i].item) < k

(* C3: when the runner raises IgnoreInvalidRequest for a queued item, the
   worker removes that item from the queue and does not mark its bug as
   failed. *)
C3_IgnoreRemoved ==
    last.op = "retry_failed" =>
        \A i \in RanIdx :
            last.ran[i].out = "ignore" =>
                /\ last.ran[i].item \notin files
                /\ last.ran[i].item.bug \notin last.failed_bugs

(* C4: when the runner completes without error on a queued item, the worker
   removes exactly that item and ran it exactly once in the pass; a request
   processed live that succeeds inserts nothing and removes nothing. *)
C4_SuccessRemovesExactlyThatItem ==
    /\ last.op = "retry_failed" =>
           /\ \A i \in RanIdx :
                  last.ran[i].out = "ok" =>
                      /\ last.ran[i].item \notin files
                      /\ Cardinality({j \in RanIdx : last.ran[j].item = last.ran[i].item}) = 1
           /\ files = {f \in last.pre :
                          ~(f.time < Cutoff
                            \/ \E i \in RanIdx : last.ran[i].item = f /\ last.ran[i].out = "ok")}
    /\ (last.op = "ingest" /\ last.res = "ok") =>
           (files = last.pre /\ dirs = last.preDirs)

C4_Witness ==
    /\ last.op = "retry_failed"
    /\ \E i \in RanIdx : last.ran[i].out = "ok" /\ SameBug(files, last.ran[i].item.bug) # {}

(* C5: iterating Get(B) yields every item queued for B exactly once, in
   non-decreasing event.time order, ties broken by identifier, whatever the
   order in which the items were put. *)
C5_GetSortedByTime ==
    \A b \in BugIds :
        LET s == get(Queue, b)
        IN  /\ Len(s) = Cardinality(SameBug(files, b))
            /\ {s[i] : i \in 1..Len(s)} = SameBug(files, b)
            /\ \A i, j \in 1..Len(s) :
                   i < j =>
                       /\ s[i].time <= s[j].time
                       /\ s[i].time = s[j].time => LexLT(identifier(s[i]), identifier(s[j]))

C5_Witness ==
    /\ last.op \in {"postpone", "track_failed"}
    /\ \E f \in last.pre : f.bug = last.item.bug /\ last.item.time < f.time
    /\ Len(get(Queue, last.item.bug)) = 2

(* C6: is_blocked(request for b) is true iff the queue holds at least one
   item of bug b, for every b including 0, and a blocked request is
   postponed instead of being processed live. *)
C6_BlockedIffQueuedForBug ==
    /\ \A r \in Requests : is_blocked(Queue, r) <=> SameBug(files, r.bug) # {}
    /\ (last.op = "ingest" /\ SameBug(last.pre, last.item.bug) # {}) => last.res = "postponed"

(* C7 as stated: a Put of a request whose (bug.id, event.time) equals that
   of a queued item does not increase Size(bug.id). *)
C7_OneItemPerBugAndTime ==
    (/\ last.op \in {"postpone", "track_failed"}
     /\ \E f \in last.pre : f.bug = last.item.bug /\ f.time = last.item.time)
        => size(Queue, last.item.bug) = size([dirs |-> last.preDirs, files |-> last.pre], last.item.bug)

(* C7 as amended: the queue holds at most one item per identifier
   (event.time, bug.id, event.action, error or postponed): a Put whose
   identifier is already queued leaves Size(bug.id) unchanged, any other Put
   increases it by one, also when (bug.id, event.time) is already queued. *)
C7_OneItemPerIdentifier ==
    last.op \in {"postpone", "track_failed"} =>
        LET before == size([dirs |-> last.preDirs, files |-> last.pre], last.item.bug)
            after == size(Queue, last.item.bug)
        IN  /\ last.item \in files
            /\ IF last.item \in last.pre THEN after = before ELSE after = before + 1

C7_Witness ==
    /\ last.op = "track_failed"
    /\ last.item \notin last.pre
    /\ \E f \in last.pre :
           f.bug = last.item.bug /\ f.time = last.item.time /\ f.action = last.item.action

(* C8: Remove(bug_id, identifier) of an identifier that is not in the queue,
   including when the bug's container is already gone, completes without
   error and leaves the queue unchanged. *)
C8_RemoveIdempotent ==
    (last.op = "remove" /\ last.item \notin last.pre) =>
        (last.res = "none" /\ files = last.pre /\ dirs = last.preDirs)

(* C9: a bug id appears in ListAll()/GetAll() iff at least one item is
   queued for it; removing a bug's last item removes its container, removing
   another item keeps the container and the bug's other items. *)
C9_ContainerIffItems ==
    /\ DOMAIN list_all(Queue) = {f.bug : f \in files}
    /\ DOMAIN get_all(Queue) = {f.bug : f \in files}
    /\ (last.op = "remove" /\ last.item \in last.pre) =>
           /\ files = last.pre \ {last.item}
           /\ dirs = IF SameBug(files, last.item.bug) = {}
                     THEN last.preDirs \ {last.item.bug} ELSE last.preDirs

C9_Witness ==
    /\ last.op = "remove"
    /\ last.item \in last.pre
    /\ last.item.bug \notin DOMAIN list_all(Queue)
    /\ files # {}

(* ======================= claims: create pipeline ======================= *)
OpenIssues(b) == {k \in IssueKeys : issues[k].state = "open" /\ issues[k].bug = b}

(* C10: after any number of create attempts that aborted after CreateIssue
   had succeeded, with the bug still unlinked, followed by a successful
   retry (runs one after the other, the successful one being the last to
   create an issue), exactly one undeleted target issue exists for the bug. *)
C10_RetryLeavesOneIssue ==
    \A p \in Runs :
        (/\ ~raced
         /\ run[p].pc = "done"
         /\ run[p].latest = None
         /\ issues[run[p].issue_key].state = "open"
         /\ \A k \in IssueKeys : k > run[p].issue_key => issues[k].state = "none")
            => Cardinality(OpenIssues(run[p].bug)) = 1

(* ---- helpers for the claims on the create pipeline ---- *)
Has(p, call) == \E i \in 1..Len(run[p].calls) : run[p].calls[i] = call
IsMutation(call) == call \in {"CreateIssue", "DeleteIssue", "UpdateBug", "AddRemoteLink"}
Mutations(p) == SelectSeq(run[p].calls, IsMutation)
Links(b) == {see_also[b][i] : i \in 1..Len(see_also[b])}
IssuesOf(b) == {k \in IssueKeys : issues[k].state # "none" /\ issues[k].bug = b}
Duplicate(p) == run[p].latest # None /\ run[p].latest # run[p].issue_key
PastDuplicateCheck(p) == run[p].pc \in {"add_link_to_jira", "add_link_to_bugzilla", "done"}

(* C11: when two create pipelines for the same bug race between CreateIssue
   and the see_also link (the second creates its issue while the first has
   created its own and not yet linked it) and both run to completion, at
   most one of the two new issues remains undeleted and the bug's see_also
   links exactly one issue. *)
C11_RaceLeavesOneIssue ==
    \A p, q \in Runs :
        (/\ p # q
         /\ run[p].pc = "done" /\ run[q].pc = "done"
         /\ run[p].bug = run[q].bug
         /\ q \in run[p].rivals
         /\ IssuesOf(run[p].bug) = {run[p].issue_key, run[q].issue_key})
            => /\ Cardinality(OpenIssues(run[p].bug)) <= 1
               /\ Cardinality(Links(run[p].bug)) = 1

(* C12: in the create path, if the re-fetched bug links a key different
   from the new key, DeleteIssue is invoked on the new key and neither
   UpdateBug nor AddRemoteLink is invoked afterwards in that pipeline; if it
   links no issue or the same key, DeleteIssue is not invoked. *)
C12_DuplicateDeletedNotLinked ==
    \A p \in Runs :
        /\ Has(p, "DeleteIssue") =>
               /\ Duplicate(p)
               /\ ~Has(p, "UpdateBug")
               /\ ~Has(p, "AddRemoteLink")
        /\ PastDuplicateCheck(p) => (Has(p, "DeleteIssue") <=> Duplicate(p))

(* C13: on a successful create with no duplicate found the trackers are
   mutated in the order CreateIssue, UpdateBug (see_also add), AddRemoteLink,
   each exactly once, and the action reports handled. *)
C13_CreateThenLinkOrder ==
    \A p \in Runs :
        (run[p].pc = "done" /\ ~Duplicate(p)) =>
            /\ Mutations(p) = <<"CreateIssue", "UpdateBug", "AddRemoteLink">>
            /\ run[p].handled

C13_Witness ==
    \E p \in Runs :
        /\ run[p].pc = "done"
        /\ ~Duplicate(p)
        /\ Len(run[p].calls) = 4
        /\ run[p].latest = None

(* C14: whenever a create pipeline returns without having deleted the new
   issue, the bug's see_also contains the new issue's URL and the new issue
   carries a remote link to the bug; and no issue is linked from the
   see_also of two different bugs. *)
C14_LinkBidirectional ==
    /\ \A p \in Runs :
           (run[p].pc = "done" /\ ~Has(p, "DeleteIssue")) =>
               /\ jira_url(run[p].issue_key) \in Links(run[p].bug)
               /\ issues[run[p].issue_key].remote_link = bugzilla_url(run[p].bug)
    /\ \A b1, b2 \in BugIds : b1 # b2 => Links(b1) \cap Links(b2) = {}

C14_Witness ==
    \E p, q \in Runs :
        /\ run[p].pc = "done" /\ run[q].pc = "done"
        /\ ~Has(p, "DeleteIssue") /\ ~Has(q, "DeleteIssue")
        /\ run[p].bug # run[q].bug
        /\ Links(run[p].bug) # {} /\ Links(run[q].bug) # {}

(* ======================= claims: action runner ========================= *)
Exec == last.exec
Classified == Exec.called /\ Exec.operation # "handle"
LinkedIssue == extract_from_see_also(Exec.bug.see_also)
QueueUntouched == files = last.pre /\ dirs = last.preDirs
OnlyIncr(counter) == Exec.incr = <<counter>>

(* C15: a webhook with event.target "comment" is classified as operation
   comment whether or not the bug has a linked issue: with no linked issue
   the runner does not raise IgnoreInvalidRequest, runs the comment pipeline
   and, when the pipeline returns, returns. *)
C15_CommentWithoutIssue ==
    (Classified /\ Exec.request.target = "comment" /\ LinkedIssue = None) =>
        /\ Exec.operation = "comment"
        /\ Invoked(Exec, "caller")
        /\ Exec.caller \in {"handled", "unhandled"} => Exec.raised = "none"

(* C16: for a request not ignored earlier the runner invokes the action with
   operation create iff event.target is "bug" and no issue is linked, with
   operation update iff event.target is "bug" and an issue is linked; the
   operation depends on the target and on the presence of a link only. *)
C16_CreateOrUpdateByTargetAndLink ==
    /\ Classified =>
           /\ (Invoked(Exec, "caller") /\ Exec.operation = "create")
                  <=> (Exec.request.target = "bug" /\ LinkedIssue = None)
           /\ (Invoked(Exec, "caller") /\ Exec.operation = "update")
                  <=> (Exec.request.target = "bug" /\ LinkedIssue # None)
    /\ \A target \in Targets, k1, k2 \in IssueKeys :
           classify(k1, target) = classify(k2, target)

C16_Witness ==
    /\ Classified
    /\ Exec.operation = "update"
    /\ Exec.request.bug.is_private
    /\ Exec.request.bug.see_also = <<>>

(* C17: for a webhook whose event.target is neither "bug" nor "comment" and
   whose bug matches an action, the runner raises IgnoreInvalidRequest,
   invokes no pipeline step, increments the ignored counter once, and the
   request is not inserted into the queue. *)
C17_OtherTargetIgnored ==
    (/\ Exec.called
     /\ Exec.request.target \notin {"bug", "comment"}
     /\ lookup_action(Exec.bug) # NoAction) =>
        /\ Exec.raised = "IgnoreInvalidRequestError"
        /\ ~Invoked(Exec, "caller")
        /\ OnlyIncr("jbi.bugzilla.ignored.count")
        /\ QueueUntouched

C17_Witness ==
    /\ last.op = "bugzilla_webhook"
    /\ Classified
    /\ Exec.request.target = "attachment"
    /\ LinkedIssue # None
    /\ files # {}

(* C18: the runner invokes the pipeline only if an action matched the bug's
   whiteboard tag and the bug is not private or the action has
   allow_private; in every other case it raises IgnoreInvalidRequest before
   any step runs.  The bug is the one the runner holds after the re-fetch. *)
C18_PipelineOnlyIfMatchedAndAllowed ==
    Exec.called =>
        LET action == lookup_action(Exec.bug)
            admitted == /\ action # NoAction
                        /\ (~Exec.bug.is_private \/ action.allow_private)
        IN  /\ Invoked(Exec, "caller") => admitted
            /\ ~admitted => /\ Exec.raised = "IgnoreInvalidRequestError"
                            /\ ~Invoked(Exec, "caller")

C18_Witness ==
    /\ Exec.called
    /\ Invoked(Exec, "lookup_action")
    /\ Exec.bug.is_private
    /\ lookup_action(Exec.bug) # NoAction
    /\ ~lookup_action(Exec.bug).allow_private
    /\ Exec.request.target = "bug"

(* C19: when bug.is_private and the re-fetch of the bug fails, the runner
   raises IgnoreInvalidRequest and the request is not queued; when
   bug.is_private is false the runner does not call get_bug. *)
C19_PrivateRefetchFailureIgnored ==
    Exec.called =>
        /\ (Exec.request.bug.is_private /\ ~Exec.refetch.ok) =>
               /\ Exec.raised = "IgnoreInvalidRequestError"
               /\ QueueUntouched
        /\ ~Exec.request.bug.is_private => ~Invoked(Exec, "get_bug")

C19_Witness ==
    /\ last.op = "bugzilla_webhook"
    /\ Exec.called
    /\ Exec.request.bug.is_private
    /\ ~Exec.refetch.ok
    /\ Exec.calls = <<"get_bug">>

(* C20: every call of the runner ends in exactly one of three ways: it
   returns with the processed counter incremented once; it raises
   IgnoreInvalidRequest with the ignored counter incremented once; or it
   raises the pipeline's other exception with no counter incremented.  A
   pipeline exception other than IgnoreInvalidRequest is never swallowed. *)
C20_ThreeOutcomes ==
    Exec.called =>
        /\ \/ Exec.raised = "none" /\ OnlyIncr("jbi.bugzilla.processed.count")
           \/ Exec.raised = "IgnoreInvalidRequestError"
                  /\ OnlyIncr("jbi.bugzilla.ignored.count")
           \/ Exec.raised = "Exception" /\ Exec.incr = <<>>
        /\ (Invoked(Exec, "caller") /\ Exec.caller = "raise") => Exec.raised = "Exception"
        /\ Exec.raised = "Exception" => (Invoked(Exec, "caller") /\ Exec.caller = "raise")

C20_Witness ==
    /\ Exec.called
    /\ Invoked(Exec, "caller")
    /\ Exec.caller = "raise"
    /\ Exec.raised = "Exception"
    /\ last.op = "bugzilla_webhook"
    /\ files # last.pre

(* ======================= claims: steps of the pipeline ================= *)
(* C21: if a step of the pipeline raises, no later step is invoked, the
   exception ends the run, what the earlier steps changed is not undone,
   and the action's aborted counter is incremented. *)
C21_AbortedCounterIncremented ==
    \A p \in Runs :
        run[p].pc = "aborted" =>
            /\ Len(run[p].calls) >= 1
            /\ ~run[p].handled
            /\ run[p].issue_key # None => issues[run[p].issue_key].state # "none"
            /\ run[p].incr = <<"jbi.action.aborted.count">>

(* ======================= claims: passes of the worker ================== *)
Expired(k) == last.items[k].time < Cutoff
FailedBefore(k) ==
    \E i \in RanIdx :
        /\ last.ran[i].out = "error"
        /\ last.ran[i].item.bug = last.items[k].bug
        /\ Position(last.ran[i].item) < k
CorruptBugs == {f.bug : f \in last.bad}

(* C22: a queue file that does not parse surfaces as QueueItemRetrievalError
   when its bug's items are iterated and does not halt the processing of
   the other bugs: in a pass the corrupt item is skipped and the items of
   the other bugs are still processed (the expired ones removed, the others
   run unless an earlier item of their bug failed). *)
C22_CorruptItemSkipped ==
    (last.op = "retry_failed" /\ last.bad # {}) =>
        /\ \A f \in last.bad : ~WasRun(f)
        /\ \A k \in ItemIdx :
               last.items[k].bug \notin CorruptBugs =>
                   IF Expired(k) THEN last.items[k] \notin files
                   ELSE \/ WasRun(last.items[k])
                        \/ \E i \in RanIdx :
                               /\ last.ran[i].out # "ok"
                               /\ last.ran[i].item.bug = last.items[k].bug

(* C23: a failure on an item of bug A does not stop the pass: every
   non-expired item of every other bug B whose own earlier items did not
   fail is still passed to the runner in the same pass. *)
C23_FailureDoesNotStopPass ==
    last.op = "retry_failed" =>
        \A i \in RanIdx :
            last.ran[i].out = "error" =>
                \A k \in ItemIdx :
                    (/\ last.items[k].bug # last.ran[i].item.bug
                     /\ ~Expired(k)
                     /\ ~FailedBefore(k)) => WasRun(last.items[k])

(* C24: an expired item never blocks its bug: when T0 of bug B is removed as
   expired and a later item T1 of B is not expired, T1 is run in the same
   pass provided no non-expired item of B before T1 failed in that pass. *)
C24_ExpiredDoesNotBlock ==
    last.op = "retry_failed" =>
        \A k0, k1 \in ItemIdx :
            (/\ k0 < k1
             /\ last.items[k0].bug = last.items[k1].bug
             /\ Expired(k0)
             /\ ~Expired(k1)
             /\ ~FailedBefore(k1)) =>
                /\ last.items[k0] \notin files
                /\ ~WasRun(last.items[k0])
                /\ WasRun(last.items[k1])

(* C25: each pass of the worker terminates after visiting every queued item
   at most once; with constant_retry false the worker makes exactly one
   pass and exits; with constant_retry true it starts a new pass after
   every pass and never exits on its own. *)
C25_PassVisitsOnce ==
    last.op = "retry_failed" =>
        /\ Len(last.items) = Cardinality(last.pre)
        /\ \A i, j \in ItemIdx : i # j => last.items[i] # last.items[j]
        /\ \A i, j \in RanIdx : i # j => last.ran[i].item # last.ran[j].item

C25_OnePassOrForEver ==
    /\ ~worker.constant_retry =>
           /\ worker.passes <= 1
           /\ worker.pc = "exited" => worker.passes = 1
           /\ worker.pc # "sleep"
    /\ worker.constant_retry => worker.pc \notin {"exited", "raised"}

C25_WorkerPasses ==
    /\ [](C25_PassVisitsOnce /\ C25_OnePassOrForEver)
    /\ (worker.pc = "passed" /\ worker.constant_retry) ~> (worker.pc = "loop")
    /\ (worker.pc = "passed" /\ ~worker.constant_retry) ~> [](worker.pc = "exited")

(* ======================= claims: the steps ============================= *)
Step == last.step
CallNames(result) == {result.calls[i].call : i \in 1..Len(result.calls)}
HasEntry(element) == element.errors = "nonempty" \/ element.errorMessages = "nonempty"

(* C26: create_issue fails with the create error if and only if the
   CreateIssue response (its first element when it is a list) carries a
   non-empty errors or errorMessages entry; on failure no issue key is
   assigned to the context and no link step runs; otherwise the returned
   key becomes the context's issue. *)
C26_CreateErrorIffResponseReportsErrors ==
    (last.op = "create_issue" /\ Step.response # NoResponse) =>
        LET element == Step.response.elems[1]
        IN  /\ Step.result.raised = "ActionError" <=> HasEntry(element)
            /\ HasEntry(element) =>
                   /\ Step.issue = None
                   /\ CallNames(Step.result) = {"CreateIssue"}
            /\ ~HasEntry(element) =>
                   /\ Step.result.raised = "none"
                   /\ Step.issue = element.key

C26_Witness ==
    /\ last.op = "create_issue"
    /\ Step.response.shape = "list"
    /\ Len(Step.response.elems) = 2
    /\ Step.response.elems[1].errors = "empty"
    /\ Step.response.elems[1].errorMessages = "nonempty"
    /\ Step.response.elems[1].key # None
    /\ ~HasEntry(Step.response.elems[2])
    /\ Step.result.raised = "ActionError"

(* C27: maybe_update_issue_status looks status_map up with bug.resolution
   when it is non-empty and with bug.status otherwise; it calls SetStatus
   with the mapped status exactly when the key is mapped and the operation
   is create, or is update with status or resolution among the changed
   fields; otherwise it makes no target call and returns no response. *)
C27_StatusSetWhenMappedAndChanged ==
    last.op = "maybe_update_issue_status" =>
        LET key == IF Step.bug.resolution # "" THEN Step.bug.resolution ELSE Step.bug.status
            due == /\ key \in DOMAIN Step.status_map
                   /\ \/ Step.operation = "create"
                      \/ /\ Step.operation = "update"
                         /\ Step.changed_fields \cap {"status", "resolution"} # {}
        IN  IF due
            THEN /\ Step.result.calls = <<Call("SetStatus", Step.status_map[key])>>
                 /\ Step.result.responses = 1
            ELSE /\ Step.result.calls = <<>>
                 /\ Step.result.responses = 0

C27_Witness ==
    /\ last.op = "maybe_update_issue_status"
    /\ Step.operation = "update"
    /\ Step.bug = [status |-> "RESOLVED", resolution |-> "FIXED"]
    /\ Step.changed_fields = {"resolution"}
    /\ DOMAIN Step.status_map = {"RESOLVED", "FIXED"}
    /\ Step.status_map["RESOLVED"] # Step.status_map["FIXED"]
    /\ Step.result.responses = 1

(* C28: on update, maybe_assign_jira_user makes no target call unless
   assigned_to is among the changed fields; when it is, it clears the
   assignee if the bug is unassigned or the lookup finds no single user,
   and sets the assignee otherwise; a failed lookup never makes the step
   raise. *)
C28_UpdateAssignsOrClears ==
    (last.op = "maybe_assign_jira_user" /\ Step.operation = "update") =>
        /\ "assigned_to" \notin Step.changed_fields =>
               Step.result = StepResult(<<>>, 0, "none")
        /\ ("assigned_to" \in Step.changed_fields /\ ~Step.is_assigned) =>
               Step.result.calls = <<Call("UpdateIssueFields", "none")>>
        /\ ("assigned_to" \in Step.changed_fields /\ Step.is_assigned) =>
               /\ Step.lookup = "one" =>
                      Step.result.calls = <<Call("FindUser", ""),
                                            Call("UpdateIssueFields", "assignee")>>
               /\ Step.lookup \in {"none", "several"} =>
                      /\ Step.result.calls = <<Call("FindUser", ""),
                                               Call("UpdateIssueFields", "none")>>
                      /\ Step.result.raised # "ValueError"
                      /\ Step.update_ok => Step.result.raised = "none"
        /\ Step.update_ok /\ Step.lookup # "error" =>
               /\ Step.result.raised = "none"
               /\ Step.result.responses = Len(Step.result.calls) - 
                      Cardinality({i \in 1..Len(Step.result.calls) :
                                       Step.result.calls[i].call = "FindUser"})

C28_Witness ==
    /\ last.op = "maybe_assign_jira_user"
    /\ Step.operation = "update"
    /\ "assigned_to" \in Step.changed_fields
    /\ Step.is_assigned
    /\ Step.lookup = "none"
    /\ Step.update_ok
    /\ Len(Step.result.calls) = 2

(* C29: on create, maybe_assign_jira_user performs no lookup and no update
   when the bug is unassigned; when the lookup finds no user or several it
   leaves the assignee unset, returns no response and does not fail the
   pipeline. *)
C29_CreateAssignsOnlyOnSingleMatch ==
    (last.op = "maybe_assign_jira_user" /\ Step.operation = "create") =>
        /\ ~Step.is_assigned => Step.result = StepResult(<<>>, 0, "none")
        /\ (Step.is_assigned /\ Step.lookup \in {"none", "several"}) =>
               /\ "UpdateIssueFields" \notin CallNames(Step.result)
               /\ Step.result.responses = 0
               /\ Step.result.raised = "none"

C29_Witness ==
    /\ last.op = "maybe_assign_jira_user"
    /\ Step.operation = "create"
    /\ Step.is_assigned
    /\ Step.lookup = "several"
    /\ Step.result.calls = <<Call("FindUser", "")>>

(* C30: init with a steps mapping that has a group key outside new,
   existing and comment, or that names an unknown step, fails with a
   validation error and yields no action object. *)
C30_InitValidatesSteps ==
    last.op = "init" =>
        LET steps == Step.executor.steps
            invalid == \/ DOMAIN steps \ {"new", "existing", "comment"} # {}
                       \/ \E g \in DOMAIN steps : steps[g] = "unknown_step"
        IN  invalid => /\ Step.executor.raised # "none"
                       /\ ~Step.executor.made

(* C31: an action constructed with a steps mapping that omits some of the
   groups new, existing and comment ends up with all three groups: each
   omitted group holds the default step list of that group and each
   specified group holds exactly the configured list. *)
GroupsOfAction == {"new", "existing", "comment"}
DefaultSteps ==
    [g \in GroupsOfAction |->
        CASE g = "new" -> "create_issue"
          [] g = "existing" -> "update_issue"
          [] OTHER -> "create_comment"]

C31_OmittedGroupsTakeDefaults ==
    (/\ last.op = "init"
     /\ DOMAIN Step.executor.steps \subseteq GroupsOfAction
     /\ \A g \in DOMAIN Step.executor.steps : Step.executor.steps[g] # "unknown_step") =>
        /\ Step.executor.made
        /\ DOMAIN Step.executor.groups = GroupsOfAction
        /\ \A g \in GroupsOfAction :
               Step.executor.groups[g] =
                   IF g \in DOMAIN Step.executor.steps
                   THEN Step.executor.steps[g]
                   ELSE DefaultSteps[g]

(* C32 as stated: LookupAction resolves a bug to at most one action: it
   returns the first configured action whose whiteboard_tag equals,
   case-insensitively, a bracketed tag of the bug's whiteboard, and reports
   not-found when no bracketed tag matches (a bare word equal to a
   configured tag does not match). *)
BracketedWords(whiteboard) ==
    {lower(whiteboard[i].word) : i \in {j \in 1..Len(whiteboard) : whiteboard[j].bracketed}}
Candidates(whiteboard, configured) ==
    {i \in 1..Len(configured) :
         lower(configured[i].whiteboard_tag) \in BracketedWords(whiteboard)}

C32_FirstConfiguredAction ==
    last.op = "lookup_action" =>
        LET c == Candidates(Step.whiteboard, Step.configured)
        IN  IF c = {} THEN Step.action = NoAction
            ELSE Step.action = Step.configured[CHOOSE i \in c : \A j \in c : i <= j]

(* C32 amended: the action returned is the one configured for the first
   bracketed tag of the whiteboard, in whiteboard order, that equals
   case-insensitively a configured whiteboard_tag; not-found is reported
   exactly when no bracketed tag matches, bare words never match. *)
C32_FirstMatchingTag ==
    last.op = "lookup_action" =>
        LET w == Step.whiteboard
            c == Candidates(w, Step.configured)
            hit(j) == /\ w[j].bracketed
                      /\ \E i \in c : lower(Step.configured[i].whiteboard_tag) = lower(w[j].word)
        IN  /\ Step.action = NoAction <=> c = {}
            /\ c # {} =>
                   \E j \in 1..Len(w) :
                       /\ hit(j)
                       /\ \A h \in 1..(j - 1) : ~hit(h)
                       /\ lower(Step.action.whiteboard_tag) = lower(w[j].word)

C32_Witness ==
    /\ last.op = "lookup_action"
    /\ Len(Step.whiteboard) = 2
    /\ Step.whiteboard[1] = [word |-> "secure", bracketed |-> FALSE]
    /\ Step.whiteboard[2] = [word |-> "DevTest", bracketed |-> TRUE]
    /\ Step.configured[1].whiteboard_tag = "secure"
    /\ Step.action.whiteboard_tag = "devtest"

(* ---- the webhook endpoint under concurrent requests: each request is   *)
(* handled on its own task, which checks the queue, then runs the pipeline *)
(* (suspending at the clients' I/O) and tracks a failure when it returns  *)
receive(t, request) ==
    LET item == QueueItem(request, FALSE)
    IN  /\ Idle
        /\ tasks[t].pc = "idle"
        /\ \A o \in Tasks : o < t => tasks[o].pc # "idle"
        /\ \A o \in Tasks : (tasks[o].pc # "idle" /\ tasks[o].request.bug = request.bug)
                                => tasks[o].request.time < request.time
        /\ IF is_blocked(Queue, request)
           THEN /\ Fits(item)
                /\ dirs' = put(Queue, item).dirs
                /\ files' = put(Queue, item).files
                /\ tasks' = [tasks EXCEPT ![t] = [pc |-> "postponed", request |-> request]]
           ELSE /\ tasks' = [tasks EXCEPT ![t] = [pc |-> "running", request |-> request]]
                /\ UNCHANGED <<dirs, files>>
        /\ UNCHANGED <<last, pvars, worker, fsops, env>>

complete(t, outcome) ==
    LET item == QueueItem(tasks[t].request, TRUE)
    IN  /\ Idle
        /\ tasks[t].pc = "running"
        /\ IF outcome = "error"
           THEN /\ Fits(item)
                /\ dirs' = put(Queue, item).dirs
                /\ files' = put(Queue, item).files
                /\ tasks' = [tasks EXCEPT ![t].pc = "failed"]
           ELSE /\ tasks' = [tasks EXCEPT ![t].pc = "done"]
                /\ UNCHANGED <<dirs, files>>
        /\ UNCHANGED <<last, pvars, worker, fsops, env>>

NextIngest ==
    \/ \E t \in Tasks, request \in CreateRequests : receive(t, request)
    \/ \E t \in Tasks, outcome \in Outcomes : complete(t, outcome)
    \/ \E clock \in Clocks, order \in Perms(dirs), out \in [files -> Outcomes] :
           retry_failed(clock, order, out, {})
    \/ Return

SpecIngest == Init /\ [][NextIngest]_vars

(* C33: no event of a bug is run live while an earlier event of the same  *)
(* bug is still unprocessed, that is in flight in another ingestion task  *)
(* or waiting in the queue.                                               *)
C33_NoLiveRunPastEarlierEvent ==
    \A t \in Tasks :
        tasks[t].pc = "running" =>
            /\ \A o \in Tasks \ {t} :
                   ~ /\ tasks[o].pc = "running"
                     /\ tasks[o].request.bug = tasks[t].request.bug
                     /\ tasks[o].request.time < tasks[t].request.time
            /\ \A f \in files :
                   ~ (f.bug = tasks[t].request.bug /\ f.time < tasks[t].request.time)

(* C33, amended: an event of a bug does not start to run live when an     *)
(* event of the same bug is waiting in the queue at the moment its        *)
(* ingestion task checks the queue: it is postponed instead.              *)
C33_QueuedBugNotStartedLive ==
    [][\A t \in Tasks :
           (tasks[t].pc = "idle" /\ tasks'[t].pc = "running")
               => \A f \in files : f.bug # tasks'[t].request.bug]_vars

C33_Witness ==
    \E t \in Tasks :
        /\ tasks[t].pc = "postponed"
        /\ \E f \in files : /\ f.bug = tasks[t].request.bug
                            /\ f.time < tasks[t].request.time
                            /\ f.error
        /\ QueueItem(tasks[t].request, FALSE) \in files

(* ---- the files backend call by call: the webhook's process and the     *)
(* worker's process share the queue's location, so the file-system calls  *)
(* of a put, of a remove, of a ping and of an enumeration interleave      *)
CreateItems == {QueueItem(r, e) : r \in CreateRequests, e \in BOOLEAN}

InitFiles ==
    /\ files \in {S \in SUBSET CreateItems : Cardinality(S) <= MaxQueue}
    /\ dirs = {f.bug : f \in files}
    /\ last = NoLast
    /\ see_also = [b \in BugIds |-> <<>>]
    /\ issues = [k \in IssueKeys |-> NoIssue]
    /\ run = [p \in Runs |-> NoRun]
    /\ raced = FALSE
    /\ worker = NoWorker
    /\ tasks = [t \in Tasks |-> NoTask]
    /\ fsops = NoOps
    /\ env = NoEnv

FileStep(next) ==
    /\ fsops' = next
    /\ UNCHANGED <<last, pvars, worker, tasks, env>>

(* put: folder.mkdir(exist_ok=True) *)
put_mkdir(item) ==
    /\ fsops.put.pc = "idle"
    /\ dirs' = dirs \cup {item.bug}
    /\ files' = files
    /\ FileStep([fsops EXCEPT !.put = [pc |-> "write", item |-> item, raised |-> "none"]])

(* put: path.write_text(...), which needs the folder *)
put_write ==
    LET item == fsops.put.item
    IN  /\ fsops.put.pc = "write"
        /\ dirs' = dirs
        /\ IF item.bug \in dirs
           THEN /\ files' = {f \in files : ~(f.bug = item.bug /\ IdentifierOf[f] = IdentifierOf[item])}
                                \cup {item}
                /\ FileStep([fsops EXCEPT !.put.pc = "done"])
           ELSE /\ files' = files
                /\ FileStep([fsops EXCEPT !.put.pc = "done",
                                          !.put.raised = "FileNotFoundError"])

(* remove: item_path.unlink(missing_ok=True) *)
remove_unlink(item) ==
    /\ fsops.rem.pc = "idle"
    /\ item \in files
    /\ dirs' = dirs
    /\ files' = files \ {item}
    /\ FileStep([fsops EXCEPT !.rem = [pc |-> "check", item |-> item, raised |-> "none"]])

(* remove: if not any(bug_dir.iterdir()) *)
remove_check ==
    LET bug == fsops.rem.item.bug
    IN  /\ fsops.rem.pc = "check"
        /\ UNCHANGED <<dirs, files>>
        /\ FileStep([fsops EXCEPT
               !.rem.pc = IF bug \in dirs /\ \A f \in files : f.bug # bug
                          THEN "rmdir" ELSE "done",
               !.rem.raised = IF bug \in dirs THEN "none" ELSE "FileNotFoundError"])

(* remove: bug_dir.rmdir(), which needs the folder to be empty *)
remove_rmdir ==
    LET bug == fsops.rem.item.bug
    IN  /\ fsops.rem.pc = "rmdir"
        /\ files' = files
        /\ IF \A f \in files : f.bug # bug
           THEN /\ dirs' = dirs \ {bug}
                /\ FileStep([fsops EXCEPT !.rem.pc = "done"])
           ELSE /\ dirs' = dirs
                /\ FileStep([fsops EXCEPT !.rem.pc = "done", !.rem.raised = "OSError"])

(* ping: the temporary directory is made in the queue's location, and     *)
(* removed when the with block is left                                    *)
ping_enter ==
    /\ ~fsops.temp
    /\ UNCHANGED <<dirs, files>>
    /\ FileStep([fsops EXCEPT !.temp = TRUE])

ping_exit ==
    /\ fsops.temp
    /\ UNCHANGED <<dirs, files>>
    /\ FileStep([fsops EXCEPT !.temp = FALSE])

(* list_all and get_all: every directory of the location is read as a bug *)
(* id, int(filesystem_object.name)                                        *)
list_all_call ==
    /\ UNCHANGED <<dirs, files>>
    /\ FileStep([fsops EXCEPT !.listing =
           [pc |-> "done",
            ids |-> IF fsops.temp THEN {} ELSE DOMAIN list_all(Queue),
            raised |-> IF fsops.temp THEN "ValueError" ELSE "none",
            temp |-> fsops.temp,
            queued |-> {f.bug : f \in files}]])

NextFiles ==
    \/ \E item \in CreateItems : put_mkdir(item)
    \/ put_write
    \/ \E item \in CreateItems : remove_unlink(item)
    \/ remove_check
    \/ remove_rmdir
    \/ ping_enter
    \/ ping_exit
    \/ list_all_call

SpecFiles == InitFiles /\ [][NextFiles]_vars

(* C34: a put for a bug that interleaves with the remove of another item  *)
(* of that bug, the removal of the bug's emptied container included,      *)
(* completes without error and leaves the put item in the queue; the      *)
(* remove does not fail either.                                           *)
C34_PutSurvivesRemove ==
    ( /\ fsops.put.pc = "done"
      /\ fsops.rem.pc = "done"
      /\ fsops.put.item.bug = fsops.rem.item.bug
      /\ fsops.put.item # fsops.rem.item )
        => /\ fsops.put.raised = "none"
           /\ fsops.rem.raised = "none"
           /\ fsops.put.item \in files

(* C37: a ping leaves the set of queued items unchanged, and an           *)
(* enumeration of the queue that interleaves with a ping neither fails    *)
(* nor reports a bug id that has no queued item.                          *)
C37_PingDoesNotDisturbEnumeration ==
    /\ [][fsops'.temp # fsops.temp => (files' = files /\ dirs' = dirs)]_vars
    /\ []( ( /\ fsops.listing.pc = "done"
             /\ fsops.listing.temp
             /\ fsops.put.pc = "idle"
             /\ fsops.rem.pc = "idle" )
               => /\ fsops.listing.raised = "none"
                  /\ fsops.listing.ids \subseteq fsops.listing.queued )

(* C35: two create pipelines racing on the same bug never both delete the *)
(* issue they have just created; once both have completed, at least one   *)
(* of the two issues still exists and is linked from the bug's see_also.  *)
IssueDeleted(p) ==
    run[p].issue_key # None /\ issues[run[p].issue_key].state = "deleted"

IssueLinked(p) ==
    /\ run[p].issue_key # None
    /\ issues[run[p].issue_key].state = "open"
    /\ \E i \in 1..Len(see_also[run[p].bug]) :
           see_also[run[p].bug][i] = jira_url(run[p].issue_key)

TwoOnTheBug(p, q) ==
    /\ p # q
    /\ run[p].bug # None
    /\ run[p].bug = run[q].bug
    /\ \A o \in Runs \ {p, q} : run[o].bug # run[p].bug

C35_NotBothDeleted ==
    \A p, q \in Runs :
        TwoOnTheBug(p, q) =>
            /\ ~(IssueDeleted(p) /\ IssueDeleted(q))
            /\ (run[p].pc = "done" /\ run[q].pc = "done")
                   => (IssueLinked(p) \/ IssueLinked(q))

C35_Witness ==
    \E p, q \in Runs :
        /\ TwoOnTheBug(p, q)
        /\ run[p].pc = "done" /\ run[q].pc = "done"
        /\ run[p].rivals # {}
        /\ IssueDeleted(p)
        /\ IssueLinked(q)

(* C38: whenever the runner raises IgnoreInvalidRequestError, the         *)
(* pipeline has not been called, so no mutating call has been made during *)
(* that call of the runner: every ignore decision is taken before the     *)
(* pipeline starts.                                                       *)
C38_IgnoredBeforePipeline ==
    (Exec.called /\ Exec.raised = "IgnoreInvalidRequestError")
        => /\ ~Invoked(Exec, "caller")
           /\ \A i \in 1..Len(Exec.calls) : Exec.calls[i] \in {"get_bug", "lookup_action"}

C38_Witness ==
    /\ Exec.called
    /\ Exec.raised = "IgnoreInvalidRequestError"
    /\ Exec.action # NoAction
    /\ Exec.operation = "ignore"
    /\ Invoked(Exec, "get_bug")

(* C39: the responses a pipeline returns are the concatenation, in step   *)
(* order, of the responses its steps returned: the details of a create    *)
(* hold, under "responses", the response of every mutating call in the    *)
(* order the calls were made.                                             *)
MutatingCalls(result) ==
    LET mutating == SelectSeq(result.calls, LAMBDA c : c.call # "GetBug")
    IN  [i \in 1..Len(mutating) |-> mutating[i].call]

C39_ResponsesInStepOrder ==
    (last.op = "create_issue" /\ Step.result.raised = "none") =>
        \E d \in Step.details :
            /\ d.key = "responses"
            /\ d.value = MutatingCalls(Step.result)

(* C40: create_issue on a bug whose comment list is empty creates the     *)
(* issue with an empty description, and the pipeline completes as handled. *)
C40_EmptyCommentListCreates ==
    (last.op = "create_issue" /\ Step.comment_list = <<>>) =>
        /\ Step.result.raised = "none"
        /\ Step.description = ""
        /\ "CreateIssue" \in CallNames(Step.result)

(* ---- the worker over time: passes are made again and again (by the     *)
(* loop of main or by whatever starts the worker), the clock advances,    *)
(* the webhook queues items, and a file of the queue may stop parsing     *)
tick ==
    /\ env.now < FirstNow + MaxTick
    /\ env' = [env EXCEPT !.now = @ + 1]
    /\ UNCHANGED <<qvars, pvars, worker, tasks, fsops>>

corrupt_file(item) ==
    /\ item \in files
    /\ env.corrupt = {}
    /\ env' = [env EXCEPT !.corrupt = {item}]
    /\ UNCHANGED <<qvars, pvars, worker, tasks, fsops>>

pass_now ==
    \E order \in Perms(dirs), out \in [files -> Outcomes] :
        retry_failed(env.now, order, out, env.corrupt \cap files)

NextDrain ==
    \/ \E r \in WorkerRequests : postpone(r)
    \/ \E r \in WorkerRequests : track_failed(r)
    \/ \E item \in files : corrupt_file(item)
    \/ tick
    \/ pass_now
    \/ Return

SpecDrain ==
    /\ Init
    /\ [][NextDrain]_vars
    /\ WF_vars(tick)
    /\ WF_vars(Return)

(* C36: if passes keep being made and the clock advances, every item put  *)
(* in the queue is eventually removed from it: no item stays queued       *)
(* forever.  Stated for the items whose own file parses.                  *)
PassMade == last.op = "retry_failed"

C36_EveryItemEventuallyRemoved ==
    \A item \in {QueueItem(r, e) : r \in WorkerRequests, e \in BOOLEAN} :
        ([]<>PassMade /\ <>[](env.now = FirstNow + MaxTick))
            => ((item \in files /\ item \notin env.corrupt)
                    ~> (item \notin files \/ item \in env.corrupt))

(* as long as every file of the queue parses, the items do drain *)
C36_WithoutCorruption ==
    \A item \in {QueueItem(r, e) : r \in WorkerRequests, e \in BOOLEAN} :
        ([]<>PassMade /\ <>[](env.now = FirstNow + MaxTick) /\ [](env.corrupt = {}))
            => ((item \in files) ~> (item \notin files))

====
